---- MODULE Spec2Model ----
(***************************************************************************)
(* Model of remote/mpmedia_mac.go: the bridge between the macOS media      *)
(* command center and the player control interface.                        *)
(*                                                                         *)
(* Three execution contexts are modelled, each with its own program        *)
(* counter:                                                                *)
(*   - the registration context running RegisterMPMediaHandler,            *)
(*   - the native command context running os_remote_command_callback,      *)
(*   - a player's event-emission context running the attached listeners.   *)
(* Their steps interleave freely.  Calls that touch only context-local     *)
(* data (a logger call, the allocation of the handler struct) are fused    *)
(* with the following step of the same context.                            *)
(*                                                                         *)
(* float64 / C.double values are represented in half-second units, so      *)
(* that 42.5 s is the integer 85; Go int values are plain integers.        *)
(***************************************************************************)
EXTENDS Integers, Sequences, FiniteSets, TLC

\* ------------------------------------------------------------- bounds

\* Number of calls of RegisterMPMediaHandler a behaviour may make.
MaxRegs == 2

\* ------------------------------------------------------------ domains

Nil == 0

NilPlayer == "nil"

Players == {"P1", "P2"}

Loggers == {"logA", "logB"}

PlaybackStates == {"Playing", "Paused", "Stopped"}

\* The order in which RegisterMPMediaHandler attaches its listeners.
EventKinds == <<"SongChange", "Stopped", "Seek", "Playing", "Paused">>

EventKindSet == {EventKinds[i] : i \in 1..Len(EventKinds)}

\* The command codes of C.Command; "UNKNOWN" stands for every other value.
Commands == {"PLAY", "PAUSE", "STOP", "TOGGLE", "PREVIOUS_TRACK",
             "NEXT_TRACK", "SEEK", "UNKNOWN"}

RecognizedCommands == Commands \ {"UNKNOWN"}

\* Payloads of a command, in half-second units (85 is 42.5 s).
Values == {0, 85}

\* Positions GetTimePos may return, in half-second units.
Positions == {0, 7}

NilTrack == [nil |-> TRUE, valid |-> FALSE, title |-> "", artist |-> "", duration |-> 0]

\* Tracks a player may hand to a song-change listener: absent, invalid but
\* with populated fields, and two valid ones.
Tracks == { NilTrack,
            [nil |-> FALSE, valid |-> FALSE, title |-> "X", artist |-> "Y", duration |-> 7],
            [nil |-> FALSE, valid |-> TRUE, title |-> "A", artist |-> "B", duration |-> 180],
            [nil |-> FALSE, valid |-> TRUE, title |-> "C", artist |-> "D", duration |-> 0] }

ArtURL == "https://support.apple.com/library/content/dam/edam/applecare/images/en_US/osx/mac-apple-logo-screen-icon.png"

\* ---------------------------------------------------------- variables

VARIABLES
    mpMediaEventRecipient, \* the global recipient: Nil or an index into handlers
    handlers,              \* the MPMediaHandler structs allocated so far
    regPc,                 \* position of the registration context
                           \*   ("idle", "native", an event kind, "return", "returned")
    regResult,             \* what the last RegisterMPMediaHandler returned
    nativeRegCalls,        \* calls of C.register_os_remote_commands so far
    nativeRefused,         \* the native side refused the last registration
    listeners,             \* per player and event kind, the attached listeners
    playbackState,         \* per player, its playback state (player-owned)
    nativeState,           \* playback state last pushed to the native layer
    cmdPc,                 \* position of the command context
                           \*   ("idle", "call", "done"; "panic" if it panicked)
    cmd,                   \* the command being handled: [command, value]
    cmdMp,                 \* the recipient the callback read
    cmdTrace,              \* calls made while handling the command
    evPc,                  \* position of the event context ("idle", "listener",
                           \*   "position", "returned"; "panic" if it panicked)
    ev,                    \* the event being emitted: [player, kind, track]
    evIdx,                 \* index of the running listener in its list
    evTrace,               \* calls made by the listeners of the event so far
    liveAllocs,            \* C strings allocated by C.CString and not yet freed
    panicked               \* the process died of a Go panic

vars == <<mpMediaEventRecipient, handlers, regPc, regResult, nativeRegCalls,
          nativeRefused, listeners, playbackState, nativeState, cmdPc, cmd,
          cmdMp, cmdTrace, evPc, ev, evIdx, evTrace, liveAllocs, panicked>>

regVars == <<mpMediaEventRecipient, handlers, regPc, regResult,
             nativeRegCalls, nativeRefused, listeners>>

cmdVars == <<cmdPc, cmd, cmdMp, cmdTrace>>

evVars == <<evPc, ev, evIdx, evTrace, liveAllocs, playbackState, nativeState>>

NoCmd == [command |-> "none", value |-> 0]

NoEv == [player |-> NilPlayer, kind |-> "none", track |-> NilTrack]

\* The package state before any registration.  The players exist before the
\* bridge does and may be in any playback state when it is registered.
Init ==
    /\ mpMediaEventRecipient = Nil
    /\ handlers = <<>>
    /\ regPc = "idle"
    /\ regResult = "none"
    /\ nativeRegCalls = 0
    /\ nativeRefused = FALSE
    /\ listeners = [p \in Players |-> [k \in EventKindSet |-> <<>>]]
    /\ playbackState \in [Players -> PlaybackStates]
    /\ nativeState = "none"
    /\ cmdPc = "idle"
    /\ cmd = NoCmd
    /\ cmdMp = Nil
    /\ cmdTrace = <<>>
    /\ evPc = "idle"
    /\ ev = NoEv
    /\ evIdx = 0
    /\ evTrace = <<>>
    /\ liveAllocs = 0
    /\ panicked = FALSE

\* -------------------------------------------------------------- traces

\* One call recorded in a context's trace.  kind is "player" (a call on the
\* ControlledPlayer), "track" (a call on the TrackInterface), "logger" (a call
\* on the handler's logger), "log" (the standard log package), "native" (a C
\* function of mpmediabridge.h) or "mem" (C.CString / C.free).  on is the
\* player or logger called; s1..s3 and num are the arguments, except that a
\* player-control call has its result ("nil" or "error") in s1 and
\* GetTimePos its result in num.
Entry(kind, op, on, s1, s2, s3, num) ==
    [kind |-> kind, op |-> op, on |-> on, s1 |-> s1, s2 |-> s2, s3 |-> s3, num |-> num]

OfKind(trace, kinds) == SelectSeq(trace, LAMBDA e : e.kind \in kinds)

\* ------------------------------------------------------- registration

\* C.double(x) of a Go int x: seconds to half-second units.
CDouble(x) == x + x

\* The value RegisterMPMediaHandler returns; the outcome of the native
\* registration is not consulted.
RegisterReturnValue(refused) == "nil"

\* Mutant of NewRecipient: the assignment to the recipient is left out of
\* this step.
NewRecipient_NotYetWritten(old, mp) == old

\* Mutant of NewRecipient: the recipient is set only while it is still nil.
NewRecipient_KeepFirst(old, mp) == IF old = Nil THEN mp ELSE old

\* mpMediaEventRecipient = mp: the new handler replaces whatever the
\* recipient held.
NewRecipient(old, mp) == mp

\* mp := &MPMediaHandler{...}; mpMediaEventRecipient = mp
RegisterMPMediaHandler(player, logger_) ==
    /\ ~panicked
    /\ regPc = "idle"
    /\ Len(handlers) < MaxRegs
    /\ player \in Players \cup {NilPlayer}
    /\ logger_ \in Loggers
    /\ handlers' = Append(handlers, [player |-> player, logger |-> logger_])
    /\ mpMediaEventRecipient' = NewRecipient(mpMediaEventRecipient, Len(handlers) + 1)
    /\ regPc' = "native"
    /\ regResult' = "none"
    /\ nativeRefused' = FALSE
    /\ UNCHANGED <<nativeRegCalls, listeners, cmdVars, evVars, panicked>>

\* C.register_os_remote_commands(): the native side accepts or refuses; the
\* call returns nothing to the Go side either way.
register_os_remote_commands ==
    /\ ~panicked
    /\ regPc = "native"
    /\ nativeRegCalls' = nativeRegCalls + 1
    /\ \E refused \in BOOLEAN : nativeRefused' = refused
    /\ regPc' = EventKinds[1]
    /\ UNCHANGED <<mpMediaEventRecipient, handlers, regResult, listeners,
                   cmdVars, evVars, panicked>>

NextRegPc(kind) ==
    IF kind = EventKinds[Len(EventKinds)] THEN "return"
    ELSE EventKinds[1 + CHOOSE i \in 1..Len(EventKinds) : EventKinds[i] = kind]

\* Mutant of Attach: the player keeps one listener per kind, the last one
\* given to it.
Attach_ReplacesEarlier(list, mp) == <<mp>>

\* The player's On<Kind> method: the listener is added at the end of the
\* player's list for the kind and no listener is removed.
Attach(list, mp) == Append(list, mp)

\* mp.player.On<Kind>(func ...): the player appends the closure, which
\* captures mp, to its listener list for the kind.  A nil player makes the
\* method call panic.
AttachListener ==
    /\ ~panicked
    /\ regPc \in EventKindSet
    /\ LET mp == Len(handlers)
           player == handlers[mp].player
       IN IF player = NilPlayer
          THEN /\ panicked' = TRUE
               /\ UNCHANGED <<listeners, regPc>>
          ELSE /\ listeners' = [listeners EXCEPT ![player][regPc] = Attach(@, mp)]
               /\ regPc' = NextRegPc(regPc)
               /\ UNCHANGED panicked
    /\ UNCHANGED <<mpMediaEventRecipient, handlers, regResult, nativeRegCalls,
                   nativeRefused, cmdVars, evVars>>

\* return nil
RegisterReturn ==
    /\ ~panicked
    /\ regPc = "return"
    /\ regResult' = RegisterReturnValue(nativeRefused)
    /\ regPc' = "returned"
    /\ UNCHANGED <<mpMediaEventRecipient, handlers, nativeRegCalls,
                   nativeRefused, listeners, cmdVars, evVars, panicked>>

\* The caller has looked at the returned error and goes on.
CallerProceeds ==
    /\ ~panicked
    /\ regPc = "returned"
    /\ regPc' = "idle"
    /\ regResult' = "none"
    /\ nativeRefused' = FALSE
    /\ UNCHANGED <<mpMediaEventRecipient, handlers, nativeRegCalls, listeners,
                   cmdVars, evVars, panicked>>

\* ------------------------------------------------------------ commands

\* Mutant of Handler: the PLAY and PAUSE cases are swapped.
Handler_PlayPauseSwapped(command) ==
    CASE command = "PLAY" -> "OnCommandPause"
      [] command = "PAUSE" -> "OnCommandPlay"
      [] command = "STOP" -> "OnCommandStop"
      [] command = "TOGGLE" -> "OnCommandTogglePlayPause"
      [] command = "PREVIOUS_TRACK" -> "OnCommandPreviousTrack"
      [] command = "NEXT_TRACK" -> "OnCommandNextTrack"
      [] command = "SEEK" -> "OnCommandSeek"
      [] OTHER -> "default"

\* Mutant of Handler: the switch has no default case and an unrecognized
\* code falls into the pause handler.
Handler_NoDefault(command) ==
    CASE command = "PLAY" -> "OnCommandPlay"
      [] command = "PAUSE" -> "OnCommandPause"
      [] command = "STOP" -> "OnCommandStop"
      [] command = "TOGGLE" -> "OnCommandTogglePlayPause"
      [] command = "PREVIOUS_TRACK" -> "OnCommandPreviousTrack"
      [] command = "NEXT_TRACK" -> "OnCommandNextTrack"
      [] command = "SEEK" -> "OnCommandSeek"
      [] OTHER -> "OnCommandPause"

\* The switch of os_remote_command_callback: the handler a code is routed to.
Handler(command) ==
    CASE command = "PLAY" -> "OnCommandPlay"
      [] command = "PAUSE" -> "OnCommandPause"
      [] command = "STOP" -> "OnCommandStop"
      [] command = "TOGGLE" -> "OnCommandTogglePlayPause"
      [] command = "PREVIOUS_TRACK" -> "OnCommandPreviousTrack"
      [] command = "NEXT_TRACK" -> "OnCommandNextTrack"
      [] command = "SEEK" -> "OnCommandSeek"
      [] OTHER -> "default"

\* Mutant of PlayerCall: the toggle handler resumes instead of pausing.
PlayerCall_TogglePlays(handler) ==
    CASE handler = "OnCommandPause" -> "Pause"
      [] handler = "OnCommandPlay" -> "Play"
      [] handler = "OnCommandStop" -> "Stop"
      [] handler = "OnCommandTogglePlayPause" -> "Play"
      [] handler = "OnCommandNextTrack" -> "NextTrack"
      [] handler = "OnCommandPreviousTrack" -> "PreviousTrack"
      [] handler = "OnCommandSeek" -> "SeekAbsolute"

\* The player method each handler calls.
PlayerCall(handler) ==
    CASE handler = "OnCommandPause" -> "Pause"
      [] handler = "OnCommandPlay" -> "Play"
      [] handler = "OnCommandStop" -> "Stop"
      [] handler = "OnCommandTogglePlayPause" -> "Pause"
      [] handler = "OnCommandNextTrack" -> "NextTrack"
      [] handler = "OnCommandPreviousTrack" -> "PreviousTrack"
      [] handler = "OnCommandSeek" -> "SeekAbsolute"

\* Mutant of ErrorName: every handler was copied from OnCommandPause and
\* kept its operation name.
ErrorName_AllPause(handler) == "Pause"

\* The operation name each handler passes to logger.PrintError.
ErrorName(handler) ==
    CASE handler = "OnCommandPause" -> "Pause"
      [] handler = "OnCommandPlay" -> "Play"
      [] handler = "OnCommandStop" -> "Stop"
      [] handler = "OnCommandTogglePlayPause" -> "Pause"
      [] handler = "OnCommandNextTrack" -> "NextTrack"
      [] handler = "OnCommandPreviousTrack" -> "PreviousTrack"
      [] handler = "OnCommandSeek" -> "SeekAbsolute"

\* The argument a handler hands to the player method: float64(value), the
\* payload unchanged, for OnCommandSeek; none (0) for the others.
PlayerArg(handler, value) == IF handler = "OnCommandSeek" THEN value ELSE 0

\* Mutant of EarlyReturn: only the handler pointer is checked.
EarlyReturn_NilHandlerOnly(mp) == mp = Nil

\* Mutant of EarlyReturn: a handler also gives up while a player listener
\* is running.
EarlyReturn_WhileListenerRuns(mp) ==
    mp = Nil \/ handlers[mp].player = NilPlayer \/ evPc # "idle"

\* if mp == nil || mp.player == nil { return }
EarlyReturn(mp) == mp = Nil \/ handlers[mp].player = NilPlayer

\* Mutant of HandlerCalls: the handler also reports the paused state to the
\* native layer itself.
HandlerCalls_PushesState(handler, mp, value, err) ==
    <<Entry("player", PlayerCall(handler), handlers[mp].player,
            IF err THEN "error" ELSE "nil", "", "", PlayerArg(handler, value)),
      Entry("native", "set_os_playback_state_paused", "", "", "", "", 0)>>
    \o (IF err
        THEN <<Entry("logger", "PrintError", handlers[mp].logger,
                     ErrorName(handler), "", "", 0)>>
        ELSE <<>>)

\* The calls a handler makes once past its guard: the player method, with
\* what it returned, and, when that is an error, one logger.PrintError.
HandlerCalls(handler, mp, value, err) ==
    <<Entry("player", PlayerCall(handler), handlers[mp].player,
            IF err THEN "error" ELSE "nil", "", "", PlayerArg(handler, value))>>
    \o (IF err
        THEN <<Entry("logger", "PrintError", handlers[mp].logger,
                     ErrorName(handler), "", "", 0)>>
        ELSE <<>>)

\* Mutant of RecipientAfterCallback: dispatching a command empties the
\* recipient.
RecipientAfterCallback_Consumed(recipient) == Nil

\* The callback and the handlers only read mpMediaEventRecipient and the
\* fields of the handler it points to: the recipient after a dispatch is the
\* recipient before it.
RecipientAfterCallback(recipient) == recipient

\* The native layer calls the exported callback: the switch, the read of
\* the global recipient and the handler's guard.
os_remote_command_callback(command, value) ==
    /\ ~panicked
    /\ cmdPc = "idle"
    /\ cmd' = [command |-> command, value |-> value]
    /\ IF Handler(command) = "default"
       THEN /\ cmdMp' = Nil
            /\ cmdTrace' = <<Entry("log", "Printf", "", "unknown OS command received", "", "", 0)>>
            /\ cmdPc' = "done"
       ELSE /\ cmdMp' = mpMediaEventRecipient
            /\ cmdTrace' = <<>>
            /\ cmdPc' = IF EarlyReturn(mpMediaEventRecipient) THEN "done" ELSE "call"
    /\ mpMediaEventRecipient' = RecipientAfterCallback(mpMediaEventRecipient)
    /\ UNCHANGED <<handlers, regPc, regResult, nativeRegCalls, nativeRefused,
                   listeners, evVars, panicked>>

\* Go semantics of the handler's call: reading mp.player through a nil mp,
\* or calling a method on a nil ControlledPlayer, panics.
HandlerPanics(mp) == mp = Nil \/ handlers[mp].player = NilPlayer

\* The handler's body: mp.player.<Method>() and the error branch.
OnCommand ==
    /\ ~panicked
    /\ cmdPc = "call"
    /\ IF HandlerPanics(cmdMp)
       THEN /\ panicked' = TRUE
            /\ cmdPc' = "panic"
            /\ UNCHANGED cmdTrace
       ELSE /\ \E err \in BOOLEAN :
                  cmdTrace' = cmdTrace \o HandlerCalls(Handler(cmd.command), cmdMp,
                                                       cmd.value, err)
            /\ cmdPc' = "done"
            /\ UNCHANGED panicked
    /\ UNCHANGED <<cmd, cmdMp, regVars, evVars>>

\* The callback returns to the native layer.
CommandReturn ==
    /\ ~panicked
    /\ cmdPc = "done"
    /\ cmdPc' = "idle"
    /\ cmd' = NoCmd
    /\ cmdMp' = Nil
    /\ cmdTrace' = <<>>
    /\ UNCHANGED <<regVars, evVars, panicked>>

\* -------------------------------------------------------------- events

\* logger.Print(msg) on the handler's logger.
LoggerPrint(mp, msg) == Entry("logger", "Print", handlers[mp].logger, msg, "", "", 0)

\* A call of a C function that takes no argument or one C.double.
Native(op, num) == Entry("native", op, "", "", "", "", num)

\* Mutant of StateSetter: the OnPaused listener was copied from OnPlaying
\* and still reports the playing state.
StateSetter_PausedAsPlaying(kind) ==
    CASE kind = "Stopped" -> "set_os_playback_state_stopped"
      [] kind = "Playing" -> "set_os_playback_state_playing"
      [] kind = "Paused" -> "set_os_playback_state_playing"

\* Mutant of StateSetter: the OnStopped listener reports the paused state.
StateSetter_StoppedAsPaused(kind) ==
    CASE kind = "Stopped" -> "set_os_playback_state_paused"
      [] kind = "Playing" -> "set_os_playback_state_playing"
      [] kind = "Paused" -> "set_os_playback_state_paused"

\* The C function the listener of a state event calls.
StateSetter(kind) ==
    CASE kind = "Stopped" -> "set_os_playback_state_stopped"
      [] kind = "Playing" -> "set_os_playback_state_playing"
      [] kind = "Paused" -> "set_os_playback_state_paused"

\* Mutant of PushPosition: the position is read but the value pushed is the
\* one kept from the previous push of the event, if there was one.
PushPosition_Cached(mp, pos) ==
    LET before == SelectSeq(evTrace,
                            LAMBDA e : e.op = "update_os_now_playing_info_position")
    IN <<Entry("player", "GetTimePos", handlers[mp].player, "", "", "", pos),
         Entry("native", "update_os_now_playing_info_position", "", "", "", "",
               IF before = <<>> THEN pos ELSE before[Len(before)].num)>>

\* C.update_os_now_playing_info_position(C.double(mp.player.GetTimePos())),
\* where GetTimePos returned pos.
PushPosition(mp, pos) ==
    <<Entry("player", "GetTimePos", handlers[mp].player, "", "", "", pos),
      Native("update_os_now_playing_info_position", pos)>>

\* Mutant of Resolve: title and artist are taken from each other's getter.
Resolve_Swapped(track) ==
    IF ~track.nil /\ track.valid
    THEN [title |-> track.artist, artist |-> track.title, duration |-> track.duration]
    ELSE [title |-> "", artist |-> "", duration |-> 0]

\* Mutant of Resolve: the track is not asked whether it is valid.
Resolve_NoValidityCheck(track) ==
    IF ~track.nil
    THEN [title |-> track.title, artist |-> track.artist, duration |-> track.duration]
    ELSE [title |-> "", artist |-> "", duration |-> 0]

\* The title, artist and duration updateMetadata resolves from the track.
Resolve(track) ==
    IF ~track.nil /\ track.valid
    THEN [title |-> track.title, artist |-> track.artist, duration |-> track.duration]
    ELSE [title |-> "", artist |-> "", duration |-> 0]

\* Mutant of TrackReads: the track is asked whether it is valid without
\* being compared with nil first.
TrackReads_NoNilCheck(track) ==
    <<Entry("track", "IsValid", "", "", "", "", 0)>>
    \o (IF track.valid
        THEN <<Entry("track", "GetTitle", "", track.title, "", "", 0),
               Entry("track", "GetArtist", "", track.artist, "", "", 0),
               Entry("track", "GetDuration", "", "", "", "", track.duration)>>
        ELSE <<>>)

\* The TrackInterface methods updateMetadata calls.
TrackReads(track) ==
    IF track.nil THEN <<>>
    ELSE <<Entry("track", "IsValid", "", "", "", "", 0)>>
         \o (IF track.valid
             THEN <<Entry("track", "GetTitle", "", track.title, "", "", 0),
                    Entry("track", "GetArtist", "", track.artist, "", "", 0),
                    Entry("track", "GetDuration", "", "", "", "", track.duration)>>
             ELSE <<>>)

\* Mutant of updateMetadata: the deferred free of cTitle is missing.
updateMetadata_TitleNotFreed(track) ==
    LET r == Resolve(track)
    IN TrackReads(track)
       \o <<Entry("mem", "CString", "", r.title, "", "", 1),
            Entry("mem", "CString", "", r.artist, "", "", 2),
            Entry("mem", "CString", "", ArtURL, "", "", 3),
            Entry("native", "set_os_now_playing_info", "", r.title, r.artist, ArtURL,
                  CDouble(r.duration)),
            Entry("mem", "free", "", ArtURL, "", "", 3),
            Entry("mem", "free", "", r.artist, "", "", 2)>>

\* mp.updateMetadata(track): the reads, the three C.CString allocations, the
\* native call, and the deferred C.free calls in reverse order.
updateMetadata(track) ==
    LET r == Resolve(track)
    IN TrackReads(track)
       \o <<Entry("mem", "CString", "", r.title, "", "", 1),
            Entry("mem", "CString", "", r.artist, "", "", 2),
            Entry("mem", "CString", "", ArtURL, "", "", 3),
            Entry("native", "set_os_now_playing_info", "", r.title, r.artist, ArtURL,
                  CDouble(r.duration)),
            Entry("mem", "free", "", ArtURL, "", "", 3),
            Entry("mem", "free", "", r.artist, "", "", 2),
            Entry("mem", "free", "", r.title, "", "", 1)>>

\* Mutant of ListenerEntry: the OnPaused listener pauses the player again
\* before it reports the state.
ListenerEntry_PausedPauses(kind, mp, track, pos) ==
    CASE kind = "SongChange" -> <<LoggerPrint(mp, "OnSongChange")>> \o updateMetadata(track)
      [] kind = "Stopped" -> <<LoggerPrint(mp, "OnStopped"), Native(StateSetter(kind), 0)>>
      [] kind = "Seek" -> <<LoggerPrint(mp, "OnSeek")>> \o PushPosition(mp, pos)
      [] kind = "Playing" -> <<LoggerPrint(mp, "OnPlaying"), Native(StateSetter(kind), 0)>>
      [] kind = "Paused" -> <<LoggerPrint(mp, "OnPaused"),
                              Entry("player", "Pause", handlers[mp].player, "nil", "", "", 0),
                              Native(StateSetter(kind), 0)>>

\* What the listener of a kind does up to and including its first native
\* call; pos is what GetTimePos returns if the listener reads it there.
ListenerEntry(kind, mp, track, pos) ==
    CASE kind = "SongChange" -> <<LoggerPrint(mp, "OnSongChange")>> \o updateMetadata(track)
      [] kind = "Stopped" -> <<LoggerPrint(mp, "OnStopped"), Native(StateSetter(kind), 0)>>
      [] kind = "Seek" -> <<LoggerPrint(mp, "OnSeek")>> \o PushPosition(mp, pos)
      [] kind = "Playing" -> <<LoggerPrint(mp, "OnPlaying"), Native(StateSetter(kind), 0)>>
      [] kind = "Paused" -> <<LoggerPrint(mp, "OnPaused"), Native(StateSetter(kind), 0)>>

\* The listeners that go on to push the position in a second native call.
PushesPositionAfterState(kind) == kind \in {"Playing", "Paused"}

\* The listener the event context is running.
CurrentListener == listeners[ev.player][ev.kind][evIdx]

\* A player makes a transition and emits the event to its listener list.
PlayerEmit(p, kind, track) ==
    /\ ~panicked
    /\ evPc = "idle"
    /\ playbackState' = IF kind \in PlaybackStates
                        THEN [playbackState EXCEPT ![p] = kind]
                        ELSE playbackState
    /\ IF listeners[p][kind] = <<>>
       THEN UNCHANGED <<evPc, ev, evIdx>>
       ELSE /\ evPc' = "listener"
            /\ ev' = [player |-> p, kind |-> kind, track |-> track]
            /\ evIdx' = 1
    /\ UNCHANGED <<evTrace, liveAllocs, nativeState, regVars, cmdVars, panicked>>

\* Go semantics of the listener's calls: a method call on a nil
\* TrackInterface panics.
ListenerPanics(kind, track) ==
    kind = "SongChange" /\ track.nil /\ TrackReads(track) # <<>>

\* The playback state the native layer shows after a call of a C function.
NativeStateAfter(op, before) ==
    CASE op = "set_os_playback_state_stopped" -> "Stopped"
      [] op = "set_os_playback_state_playing" -> "Playing"
      [] op = "set_os_playback_state_paused" -> "Paused"
      [] OTHER -> before

\* The playback state the native layer shows after the calls of a trace.
RECURSIVE NativeStateAfterAll(_, _)
NativeStateAfterAll(trace, before) ==
    IF trace = <<>> THEN before
    ELSE NativeStateAfterAll(Tail(trace),
                             IF Head(trace).kind = "native"
                             THEN NativeStateAfter(Head(trace).op, before)
                             ELSE before)

\* The number of live C strings after the C.CString and C.free calls of a
\* trace.
RECURSIVE LiveAfter(_, _)
LiveAfter(trace, live) ==
    IF trace = <<>> THEN live
    ELSE LiveAfter(Tail(trace),
                   CASE Head(trace).op = "CString" -> live + 1
                     [] Head(trace).op = "free" -> live - 1
                     [] OTHER -> live)

\* The running listener executes up to its first native call.
RunListener ==
    /\ ~panicked
    /\ evPc = "listener"
    /\ IF ListenerPanics(ev.kind, ev.track)
       THEN /\ panicked' = TRUE
            /\ evPc' = "panic"
            /\ UNCHANGED <<evTrace, nativeState, liveAllocs>>
       ELSE /\ \E pos \in (IF ev.kind = "Seek" THEN Positions ELSE {0}) :
                  LET calls == ListenerEntry(ev.kind, CurrentListener, ev.track, pos)
                  IN /\ evTrace' = evTrace \o calls
                     /\ nativeState' = NativeStateAfterAll(calls, nativeState)
                     /\ liveAllocs' = LiveAfter(calls, liveAllocs)
            /\ evPc' = IF PushesPositionAfterState(ev.kind) THEN "position" ELSE "returned"
            /\ UNCHANGED panicked
    /\ UNCHANGED <<ev, evIdx, playbackState, regVars, cmdVars>>

\* The second native call of the OnPlaying and OnPaused listeners.
ListenerPosition ==
    /\ ~panicked
    /\ evPc = "position"
    /\ \E pos \in Positions :
          evTrace' = evTrace \o PushPosition(CurrentListener, pos)
    /\ evPc' = "returned"
    /\ UNCHANGED <<ev, evIdx, liveAllocs, playbackState, nativeState, regVars, cmdVars,
                   panicked>>

\* The listener returns; the player calls the next one of the list, if any.
ListenerReturn ==
    /\ ~panicked
    /\ evPc = "returned"
    /\ IF evIdx < Len(listeners[ev.player][ev.kind])
       THEN /\ evIdx' = evIdx + 1
            /\ evPc' = "listener"
            /\ UNCHANGED <<ev, evTrace>>
       ELSE /\ evIdx' = 0
            /\ evPc' = "idle"
            /\ ev' = NoEv
            /\ evTrace' = <<>>
    /\ UNCHANGED <<liveAllocs, playbackState, nativeState, regVars, cmdVars, panicked>>

\* ------------------------------------------------------- specification

(***************************************************************************)
(* The command context reads only the recipient and the handler structs,   *)
(* which registration writes; the event context reads only the listener    *)
(* lists and the handler structs and writes the playback states; neither   *)
(* reads anything the other writes.  Three specifications pair the         *)
(* contexts:                                                               *)
(*   SpecCmd  registration interleaved step by step with commands,         *)
(*   SpecEv   registration interleaved step by step with player events,    *)
(*   Spec     commands interleaved step by step with player events,        *)
(*            registrations running while no command or event is in flight.*)
(* Only SpecCmd, where the logger decides where an error is reported, lets *)
(* the callers of RegisterMPMediaHandler pass different loggers.           *)
(***************************************************************************)

\* The steps of the registration context, with the callers passing one of
\* the given loggers.
RegNext(loggers) ==
    \/ \E player \in Players \cup {NilPlayer}, logger_ \in loggers :
          RegisterMPMediaHandler(player, logger_)
    \/ register_os_remote_commands
    \/ AttachListener
    \/ RegisterReturn
    \/ CallerProceeds

\* The native layer delivers any command code with any payload.
Deliver ==
    \E command \in Commands, value \in Values :
       os_remote_command_callback(command, value)

CmdNext ==
    \/ Deliver
    \/ OnCommand
    \/ CommandReturn

\* A player emits any event; only a song change carries a track.
Emit ==
    \E p \in Players, kind \in EventKindSet, track \in Tracks :
       PlayerEmit(p, kind, IF kind = "SongChange" THEN track ELSE NilTrack)

EvNext ==
    \/ Emit
    \/ RunListener
    \/ ListenerPosition
    \/ ListenerReturn

NextCmd == RegNext(Loggers) \/ CmdNext

NextEv == RegNext({"logA"}) \/ EvNext

\* No command and no event is in flight.
Quiescent == cmdPc = "idle" /\ evPc = "idle"

Next ==
    \/ Quiescent /\ \E player \in Players \cup {NilPlayer} :
                       RegisterMPMediaHandler(player, "logA")
    \/ Quiescent /\ register_os_remote_commands
    \/ Quiescent /\ AttachListener
    \/ Quiescent /\ RegisterReturn
    \/ Quiescent /\ CallerProceeds
    \/ regPc = "idle" /\ Deliver
    \/ regPc = "idle" /\ OnCommand
    \/ regPc = "idle" /\ CommandReturn
    \/ regPc = "idle" /\ Emit
    \/ regPc = "idle" /\ RunListener
    \/ regPc = "idle" /\ ListenerPosition
    \/ regPc = "idle" /\ ListenerReturn

SpecCmd == Init /\ [][NextCmd]_vars

SpecEv == Init /\ [][NextEv]_vars

Spec == Init /\ [][Next]_vars

\* ============================================================== claims

\* The player-control calls, the log entries and the native calls of the
\* command being handled.
CmdPlayerCalls == OfKind(cmdTrace, {"player"})

CmdLogEntries == OfKind(cmdTrace, {"logger", "log"})

CmdNativeCalls == OfKind(cmdTrace, {"native"})

\* The command callback has read a recipient whose player is not nil.
CmdHasPlayer == cmdMp # Nil /\ handlers[cmdMp].player # NilPlayer

\* The player-control method the claims specify for each command code.
SpecifiedCall(command) ==
    CASE command = "PLAY" -> "Play"
      [] command = "PAUSE" -> "Pause"
      [] command = "STOP" -> "Stop"
      [] command = "TOGGLE" -> "Pause"
      [] command = "PREVIOUS_TRACK" -> "PreviousTrack"
      [] command = "NEXT_TRACK" -> "NextTrack"
      [] command = "SEEK" -> "SeekAbsolute"

\* C1: when the callback has handled one of the six codes PLAY, PAUSE, STOP,
\* PREVIOUS_TRACK, NEXT_TRACK, SEEK for a recipient with a non-nil player,
\* it has made exactly one player-control call, on that recipient's player,
\* of the method that corresponds to the code; for SEEK the argument is the
\* command's payload, unchanged.  (SpecCmd)
C1_OneCorrespondingCall ==
    (cmdPc = "done" /\ CmdHasPlayer
       /\ cmd.command \in {"PLAY", "PAUSE", "STOP", "PREVIOUS_TRACK", "NEXT_TRACK", "SEEK"})
    => /\ Len(CmdPlayerCalls) = 1
       /\ CmdPlayerCalls[1].on = handlers[cmdMp].player
       /\ CmdPlayerCalls[1].op = SpecifiedCall(cmd.command)
       /\ (cmd.command = "SEEK" => CmdPlayerCalls[1].num = cmd.value)

\* C1 witness: SEEK(42.5) has been handled by one SeekAbsolute(42.5).
C1_Witness ==
    /\ cmdPc = "done"
    /\ cmd = [command |-> "SEEK", value |-> 85]
    /\ Len(CmdPlayerCalls) = 1
    /\ CmdPlayerCalls[1].op = "SeekAbsolute"
    /\ CmdPlayerCalls[1].num = 85

\* C2: when the callback has handled an unrecognized code it has made no
\* player-control call and written exactly one log entry, whatever the
\* recipient holds.  (SpecCmd)
C2_UnknownLoggedOnce ==
    (cmdPc = "done" /\ cmd.command \notin RecognizedCommands /\ cmd.command # "none")
    => /\ CmdPlayerCalls = <<>>
       /\ Len(CmdLogEntries) = 1
       /\ Len(cmdTrace) = 1

\* C2 witness: an unrecognized code has been handled while the recipient
\* holds a handler with a player.
C2_Witness ==
    /\ cmdPc = "done"
    /\ cmd.command = "UNKNOWN"
    /\ mpMediaEventRecipient # Nil
    /\ handlers[mpMediaEventRecipient].player \in Players
    /\ Len(CmdLogEntries) = 1

\* C3: when a handler has made its player-control call, it made it once; if
\* the call returned an error the handler wrote exactly one PrintError entry,
\* on the recipient's logger, naming the method that was called; if it
\* returned no error it wrote no log entry; in both cases it made no native
\* call.  (SpecCmd)
C3_ErrorLoggedOnceNoRetry ==
    (cmdPc = "done" /\ CmdPlayerCalls # <<>>)
    => /\ Len(CmdPlayerCalls) = 1
       /\ CmdNativeCalls = <<>>
       /\ IF CmdPlayerCalls[1].s1 = "error"
          THEN /\ Len(CmdLogEntries) = 1
               /\ CmdLogEntries[1].kind = "logger"
               /\ CmdLogEntries[1].op = "PrintError"
               /\ CmdLogEntries[1].on = handlers[cmdMp].logger
               /\ CmdLogEntries[1].s1 = CmdPlayerCalls[1].op
          ELSE CmdLogEntries = <<>>

\* C3 witness: a Stop call returned an error, which was logged under "Stop"
\* on logger logB, and the callback is about to return.
C3_Witness ==
    /\ cmdPc = "done"
    /\ ~panicked
    /\ Len(CmdPlayerCalls) = 1
    /\ CmdPlayerCalls[1].op = "Stop"
    /\ CmdPlayerCalls[1].s1 = "error"
    /\ Len(CmdLogEntries) = 1
    /\ CmdLogEntries[1].s1 = "Stop"
    /\ CmdLogEntries[1].on = "logB"

\* C4: when the callback has handled TOGGLE for a recipient with a non-nil
\* player, it has called Pause exactly once and made no other player-control
\* call, in every playback state of the player; an error is logged under the
\* name "Pause".  (SpecCmd)
C4_TogglePauses ==
    (cmdPc = "done" /\ CmdHasPlayer /\ cmd.command = "TOGGLE")
    => /\ Len(CmdPlayerCalls) = 1
       /\ CmdPlayerCalls[1].op = "Pause"
       /\ CmdPlayerCalls[1].on = handlers[cmdMp].player
       /\ \A i \in 1..Len(CmdLogEntries) : CmdLogEntries[i].s1 = "Pause"
       /\ (CmdPlayerCalls[1].s1 = "error" => Len(CmdLogEntries) = 1)

\* C4 witness: TOGGLE was handled while the player was paused: Pause was
\* called, returned an error, and the error was logged under "Pause".
C4_Witness ==
    /\ cmdPc = "done"
    /\ cmd.command = "TOGGLE"
    /\ CmdHasPlayer
    /\ playbackState[handlers[cmdMp].player] = "Paused"
    /\ CmdPlayerCalls[1].op = "Pause"
    /\ CmdPlayerCalls[1].s1 = "error"
    /\ Len(CmdLogEntries) = 1
    /\ CmdLogEntries[1].s1 = "Pause"

\* The native calls and the track reads made so far by the listeners of the
\* event being emitted.
EvNativeCalls == OfKind(evTrace, {"native"})

EvTrackReads == OfKind(evTrace, {"track"})

\* The names of those native calls, in order.
EvNativeOps == [i \in 1..Len(EvNativeCalls) |-> EvNativeCalls[i].op]

\* The listener that just returned is the last of the list: the event has
\* been delivered to every listener.
EventDelivered ==
    evPc = "returned" /\ evIdx = Len(listeners[ev.player][ev.kind])

\* The now-playing record the claims expect for a valid track: title, artist,
\* the fixed artwork URL, and the duration as a double (twice the seconds, in
\* half-second units).
IsRecordOf(call, track) ==
    /\ call.op = "set_os_now_playing_info"
    /\ call.s1 = track.title
    /\ call.s2 = track.artist
    /\ call.s3 = ArtURL
    /\ call.num = 2 * track.duration

\* The record the claims expect for an absent or invalid track.
IsEmptyRecord(call) ==
    /\ call.op = "set_os_now_playing_info"
    /\ call.s1 = ""
    /\ call.s2 = ""
    /\ call.s3 = ArtURL
    /\ call.num = 0

\* C5 as stated: once a song-change event with a valid track has been
\* delivered, exactly one now-playing record has been published, equal to
\* (title, artist, artwork URL, duration as a double).  (SpecEv; violated
\* when two registrations attached a listener to the same player.)
C5_ExactlyOneRecordPerEvent ==
    (EventDelivered /\ ev.kind = "SongChange" /\ ~ev.track.nil /\ ev.track.valid)
    => /\ Len(EvNativeCalls) = 1
       /\ IsRecordOf(EvNativeCalls[1], ev.track)

\* C5 amended: on a song-change event with a valid track every song-change
\* listener attached to the player publishes exactly one now-playing record,
\* so that after the evIdx-th listener has returned evIdx records have been
\* published, and every one of them equals (title, artist, artwork URL,
\* duration as a double).  (SpecEv)
C5_OneRecordPerListener ==
    (evPc = "returned" /\ ev.kind = "SongChange" /\ ~ev.track.nil /\ ev.track.valid)
    => /\ Len(EvNativeCalls) = evIdx
       /\ \A i \in 1..Len(EvNativeCalls) : IsRecordOf(EvNativeCalls[i], ev.track)

\* C5 witness: the track {A, B, 180} has been delivered to the only listener
\* of its player and published as (A, B, artwork, 180.0).
C5_Witness ==
    /\ EventDelivered
    /\ ev.kind = "SongChange"
    /\ ev.track.title = "A"
    /\ Len(EvNativeCalls) = 1
    /\ EvNativeCalls[1].s1 = "A"
    /\ EvNativeCalls[1].s2 = "B"
    /\ EvNativeCalls[1].s3 = ArtURL
    /\ EvNativeCalls[1].num = 360

\* C6: on a song-change event whose track is nil or not valid, every record
\* published has an empty title, an empty artist, the fixed artwork URL and
\* duration 0, each listener publishes one, and no listener reads the title,
\* artist or duration of the track (nor anything at all of a nil track).
\* (SpecEv)
C6_InvalidTrackEmpty ==
    (evPc = "returned" /\ ev.kind = "SongChange" /\ (ev.track.nil \/ ~ev.track.valid))
    => /\ Len(EvNativeCalls) = evIdx
       /\ \A i \in 1..Len(EvNativeCalls) : IsEmptyRecord(EvNativeCalls[i])
       /\ \A i \in 1..Len(EvTrackReads) : EvTrackReads[i].op = "IsValid"
       /\ (ev.track.nil => EvTrackReads = <<>>)

\* C6 witness: a track that is not valid but has a title was published as
\* the empty record.
C6_Witness ==
    /\ EventDelivered
    /\ ev.kind = "SongChange"
    /\ ~ev.track.nil
    /\ ~ev.track.valid
    /\ ev.track.title = "X"
    /\ Len(EvNativeCalls) = 1
    /\ EvNativeCalls[1].s1 = ""
    /\ EvNativeCalls[1].num = 0

\* The native calls the claims expect of one listener of a state event.
ExpectedPushes(kind) ==
    CASE kind = "Playing" -> <<"set_os_playback_state_playing",
                               "update_os_now_playing_info_position">>
      [] kind = "Paused" -> <<"set_os_playback_state_paused",
                              "update_os_now_playing_info_position">>
      [] kind = "Stopped" -> <<"set_os_playback_state_stopped">>

\* n times the sequence q.
RECURSIVE Repeat(_, _)
Repeat(q, n) == IF n = 0 THEN <<>> ELSE q \o Repeat(q, n - 1)

\* The GetTimePos calls made so far by the listeners of the event.
EvTimePosReads == SelectSeq(evTrace, LAMBDA e : e.op = "GetTimePos")

\* The position pushes made so far by the listeners of the event.
EvPositionPushes ==
    SelectSeq(EvNativeCalls, LAMBDA e : e.op = "update_os_now_playing_info_position")

\* C7 as stated: once a Playing (Paused) event has been delivered, the native
\* layer has received the matching state and then the position, one push of
\* each; once a Stopped event has been delivered, it has received the
\* stopped state only.  (SpecEv; violated when two registrations attached a
\* listener to the same player.)
C7_OnePushOfEachPerEvent ==
    (EventDelivered /\ ev.kind \in PlaybackStates)
    => EvNativeOps = ExpectedPushes(ev.kind)

\* C7 amended: every Playing (Paused) listener pushes the matching state
\* first and then the position GetTimePos of its player returned, in that
\* order, one push of each, and every Stopped listener pushes only the
\* stopped state; an event makes these pushes once per listener attached to
\* the emitting player.  (SpecEv)
C7_StateThenPositionPerListener ==
    /\ (evPc = "returned" /\ ev.kind \in PlaybackStates)
          => EvNativeOps = Repeat(ExpectedPushes(ev.kind), evIdx)
    /\ (evPc = "position")
          => /\ ev.kind \in {"Playing", "Paused"}
             /\ EvNativeOps = Repeat(ExpectedPushes(ev.kind), evIdx - 1)
                                 \o <<ExpectedPushes(ev.kind)[1]>>
    /\ (evPc = "returned" /\ ev.kind \in {"Playing", "Paused"})
          => /\ Len(EvTimePosReads) = evIdx
             /\ Len(EvPositionPushes) = evIdx
             /\ \A i \in 1..evIdx :
                   /\ EvTimePosReads[i].on = ev.player
                   /\ EvPositionPushes[i].num = EvTimePosReads[i].num

\* C7 witness: a Paused event has been delivered to the only listener of
\* its player, which pushed the paused state and then the position 3.5 s.
C7_Witness ==
    /\ EventDelivered
    /\ ev.kind = "Paused"
    /\ EvNativeOps = <<"set_os_playback_state_paused",
                       "update_os_now_playing_info_position">>
    /\ EvNativeCalls[2].num = 7

\* C8: with command steps and listener steps interleaved in every order, a
\* recognized command that is being handled was dispatched to the handler
\* the recipient holds, and once handled (for a recipient with a player) it
\* has made exactly the one player-control call specified for its code, on
\* that handler's player, with the payload as argument for SEEK.  (Spec)
C8_DispatchUnderInterleaving ==
    /\ (cmdPc \in {"call", "done"} /\ cmd.command \in RecognizedCommands)
          => cmdMp = mpMediaEventRecipient
    /\ (cmdPc = "call") => (CmdHasPlayer /\ cmdTrace = <<>>)
    /\ (cmdPc = "done" /\ cmd.command \in RecognizedCommands /\ CmdHasPlayer)
          => /\ Len(CmdPlayerCalls) = 1
             /\ CmdPlayerCalls[1].op = SpecifiedCall(cmd.command)
             /\ CmdPlayerCalls[1].on = handlers[mpMediaEventRecipient].player
             /\ CmdPlayerCalls[1].num = (IF cmd.command = "SEEK" THEN cmd.value ELSE 0)

\* C8 witness: a NEXT_TRACK command has been handled by one NextTrack call
\* while a Playing listener of the same player is between its two pushes.
C8_Witness ==
    /\ cmdPc = "done"
    /\ cmd.command = "NEXT_TRACK"
    /\ Len(CmdPlayerCalls) = 1
    /\ CmdPlayerCalls[1].op = "NextTrack"
    /\ evPc = "position"
    /\ ev.kind = "Playing"
    /\ ev.player = CmdPlayerCalls[1].on

\* C9 as stated: when RegisterMPMediaHandler has returned although the
\* native side refused the registration, it returned an error.  (SpecCmd;
\* violated: it returns nil.)
C9_RefusalReturnsError ==
    (regPc = "returned" /\ nativeRefused) => regResult = "error"

\* C10: the recipient is nil or one handler; a registration makes its new
\* handler the recipient, whatever the recipient held; a recognized command
\* delivered when the k-th registration has completed is dispatched to the
\* k-th handler; and a handler calls only the player of the handler the
\* command was dispatched to.  (SpecCmd)
C10_RegistrationReplacesRecipient ==
    [][ /\ mpMediaEventRecipient' \in 0..Len(handlers')
        /\ (regPc = "idle" /\ regPc' = "native")
              => mpMediaEventRecipient' = Len(handlers')
        /\ (cmdPc = "idle" /\ cmdPc' # "idle" /\ cmd'.command \in RecognizedCommands
              /\ regPc \in {"idle", "returned"} /\ handlers # <<>>)
              => (cmdMp' = Len(handlers) /\ cmdPc' = "call")
        /\ (cmdPc = "call" /\ cmdPc' = "done")
              => /\ cmdMp' = cmdMp
                 /\ LET calls == OfKind(cmdTrace', {"player"})
                    IN /\ Len(calls) = 1
                       /\ calls[1].on = handlers[cmdMp].player
      ]_vars

\* C10 witness: after a registration on P1 and a second one on P2 have both
\* completed, a command has been handled by the second handler with one
\* call on P2.
C10_Witness ==
    /\ Len(handlers) = 2
    /\ regPc = "idle"
    /\ handlers[1].player = "P1"
    /\ handlers[2].player = "P2"
    /\ mpMediaEventRecipient = 2
    /\ cmdPc = "done"
    /\ cmdMp = 2
    /\ Len(CmdPlayerCalls) = 1
    /\ CmdPlayerCalls[1].on = "P2"

C12_NativeStateMirrorsPlayer ==
    /\ (evPc \in {"position", "returned"} /\ ev.kind \in PlaybackStates)
          => /\ nativeState = playbackState[ev.player]
             /\ playbackState[ev.player] = ev.kind
    /\ (evPc = "listener" /\ ev.kind \in PlaybackStates)
          => playbackState[ev.player] = ev.kind

\* C12 witness: a player has stopped and its Stopped event has been
\* delivered: the native layer shows Stopped, while the other player plays.
C12_Witness ==
    /\ EventDelivered
    /\ ev.kind = "Stopped"
    /\ playbackState[ev.player] = "Stopped"
    /\ nativeState = "Stopped"
    /\ \E q \in Players \ {ev.player} : playbackState[q] = "Playing"

\* The calls the listener that has just run added to the trace of the event.
NewCalls == SubSeq(evTrace', Len(evTrace) + 1, Len(evTrace'))

\* C13 as stated: once a Seek event has been delivered, the position has
\* been pushed to the native layer exactly once.  (SpecEv; violated when two
\* registrations attached a listener to the same player.)
C13_OnePositionPushPerEvent ==
    (EventDelivered /\ ev.kind = "Seek") => Len(EvPositionPushes) = 1

\* C13 amended: every Seek listener makes exactly one native call, a push of
\* the position that GetTimePos of its player returned in that same
\* invocation, and leaves the native playback state unchanged; a Seek event
\* makes this push once per listener attached to the emitting player.
\* (SpecEv)
C13_SeekPushesFreshPosition ==
    [][ (evPc = "listener" /\ ev.kind = "Seek" /\ evPc' # "listener")
           => /\ evPc' = "returned"
              /\ nativeState' = nativeState
              /\ LET native == OfKind(NewCalls, {"native"})
                     reads == SelectSeq(NewCalls, LAMBDA e : e.op = "GetTimePos")
                 IN /\ Len(native) = 1
                    /\ native[1].op = "update_os_now_playing_info_position"
                    /\ Len(reads) = 1
                    /\ reads[1].on = ev.player
                    /\ native[1].num = reads[1].num
              /\ Len(OfKind(evTrace', {"native"})) = evIdx
      ]_vars

\* C13 witness: a Seek event has been delivered to the only listener of its
\* player, which pushed the position 3.5 s while the native layer goes on
\* showing Paused.
C13_Witness ==
    /\ EventDelivered
    /\ ev.kind = "Seek"
    /\ Len(EvPositionPushes) = 1
    /\ EvPositionPushes[1].num = 7
    /\ EvTimePosReads[1].num = 7
    /\ nativeState = "Paused"

\* The indices of the calls of a trace that satisfy a test.
IndicesOf(trace, Test(_)) == {i \in 1..Len(trace) : Test(trace[i])}

\* C14: no C string stays allocated after any step, and every song-change
\* listener allocates exactly three C strings (title, artist, artwork URL),
\* passes them to one set_os_now_playing_info call made after all three
\* allocations, and frees each of the three exactly once after that call and
\* before it returns.  (SpecEv)
C14_TransientStringsReleased ==
    [][ /\ liveAllocs' = 0
        /\ (evPc = "listener" /\ ev.kind = "SongChange" /\ evPc' = "returned")
              => LET allocs == IndicesOf(NewCalls, LAMBDA e : e.op = "CString")
                     frees == IndicesOf(NewCalls, LAMBDA e : e.op = "free")
                     native == IndicesOf(NewCalls, LAMBDA e : e.kind = "native")
                 IN /\ Cardinality(allocs) = 3
                    /\ Cardinality(native) = 1
                    /\ \A a \in allocs :
                          /\ \A n \in native : a < n
                          /\ Cardinality({f \in frees :
                                            NewCalls[f].num = NewCalls[a].num}) = 1
                          /\ \A b \in allocs :
                                NewCalls[a].num = NewCalls[b].num => a = b
                    /\ \A f \in frees :
                          /\ \A n \in native : n < f
                          /\ \E a \in allocs :
                                /\ NewCalls[a].num = NewCalls[f].num
                                /\ NewCalls[a].s1 = NewCalls[f].s1
                    /\ \A n \in native :
                          {NewCalls[n].s1, NewCalls[n].s2, NewCalls[n].s3}
                             = {NewCalls[a].s1 : a \in allocs}
      ]_vars

\* C14 witness: two song-change listeners of one player have both published
\* a record for the track {A, B, 180} and no C string is left allocated.
C14_Witness ==
    /\ EventDelivered
    /\ ev.kind = "SongChange"
    /\ ev.track.title = "A"
    /\ evIdx = 2
    /\ Len(SelectSeq(evTrace, LAMBDA e : e.op = "CString")) = 6
    /\ Len(SelectSeq(evTrace, LAMBDA e : e.op = "free")) = 6
    /\ liveAllocs = 0

\* C15: the recipient and the handlers' player and logger fields change only
\* in the step of RegisterMPMediaHandler that creates a handler and stores
\* it; that step keeps every earlier handler as it was, and no step of a
\* command or of a listener changes the recipient or any handler.  (Spec)
C15_OnlyRegistrationWritesRecipient ==
    [][ (mpMediaEventRecipient' # mpMediaEventRecipient \/ handlers' # handlers)
           => /\ regPc = "idle"
              /\ regPc' = "native"
              /\ Len(handlers') = Len(handlers) + 1
              /\ SubSeq(handlers', 1, Len(handlers)) = handlers
              /\ UNCHANGED <<cmdVars, evVars>>
      ]_vars

\* C15 witness: after two registrations on different players a command has
\* been handled by the second handler's player and a listener of the first
\* handler has run; the recipient still is the second handler.
C15_Witness ==
    /\ Len(handlers) = 2
    /\ mpMediaEventRecipient = 2
    /\ handlers[1].player # handlers[2].player
    /\ handlers[1].player # NilPlayer
    /\ cmdPc = "done"
    /\ Len(CmdPlayerCalls) = 1
    /\ CmdPlayerCalls[1].on = handlers[2].player
    /\ EventDelivered
    /\ ev.player = handlers[1].player
    /\ Len(EvNativeCalls) > 0

\* C16: a command never reaches the native layer: the calls made for a
\* command contain no native call, a step of the command context leaves the
\* native playback state and the C strings as they are, and the native
\* state changes only in a step of a running listener.  (Spec)
C16_CommandsNeverPushNative ==
    [][ /\ OfKind(cmdTrace', {"native", "mem"}) = <<>>
        /\ (cmdVars' # cmdVars)
              => (nativeState' = nativeState /\ liveAllocs' = liveAllocs
                  /\ evTrace' = evTrace)
        /\ (nativeState' # nativeState)
              => (evPc = "listener" /\ ev.kind \in PlaybackStates
                  /\ UNCHANGED cmdVars)
      ]_vars

\* C16 witness: with no event in flight and the native layer showing
\* Playing, a STOP command whose Stop call failed has been handled and
\* logged; the native layer still shows Playing.
C16_Witness ==
    /\ evPc = "idle"
    /\ nativeState = "Playing"
    /\ cmdPc = "done"
    /\ cmd.command = "STOP"
    /\ Len(CmdPlayerCalls) = 1
    /\ CmdPlayerCalls[1].s1 = "error"
    /\ Len(CmdLogEntries) = 1

\* The player-control methods of ControlledPlayer.
PlayerControlCalls == {"Play", "Pause", "Stop", "NextTrack", "PreviousTrack", "SeekAbsolute"}

\* C17: the listeners of an event call no player-control method: the only
\* player method in their calls is GetTimePos, on the emitting player; a
\* listener step leaves the calls of the command in flight as they are, and
\* a command makes at most one player-control call.  (Spec)
C17_ListenersIssueNoCommands ==
    [][ /\ \A i \in 1..Len(evTrace') :
              /\ evTrace'[i].op \notin PlayerControlCalls
              /\ evTrace'[i].kind = "player"
                    => (evTrace'[i].op = "GetTimePos" /\ evTrace'[i].on = ev'.player)
        /\ (evTrace' # evTrace \/ evPc' # evPc) => UNCHANGED cmdVars
        /\ Len(OfKind(cmdTrace', {"player"})) <= 1
      ]_vars

\* C17 witness: a PAUSE command has made its one Pause call and the Paused
\* event of that player has been delivered to its listener, which read the
\* position; no further player-control call was made.
C17_Witness ==
    /\ cmdPc = "done"
    /\ cmd.command = "PAUSE"
    /\ Len(CmdPlayerCalls) = 1
    /\ CmdPlayerCalls[1].op = "Pause"
    /\ EventDelivered
    /\ ev.kind = "Paused"
    /\ ev.player = CmdPlayerCalls[1].on
    /\ Len(EvTimePosReads) = 1
    /\ nativeState = "Paused"

\* The handler of the registration in progress has no listener attached.
NoListenerOfNewHandler ==
    \A p \in Players, kind \in EventKindSet :
       \A i \in 1..Len(listeners[p][kind]) : listeners[p][kind][i] # Len(handlers)

\* C18: once the native command registration has been called the recipient
\* is not nil; the call is made with the recipient already holding the new
\* handler and none of its listeners attached, listeners are attached only
\* after the call, and a recognized command delivered after the call and
\* before the registration returns is dispatched to the new handler.
\* (SpecCmd)
C18_RecipientBeforeNativeBeforeListeners ==
    [][ /\ (nativeRegCalls' > 0) => (mpMediaEventRecipient' # Nil)
        /\ (nativeRegCalls' # nativeRegCalls)
              => /\ mpMediaEventRecipient = Len(handlers)
                 /\ NoListenerOfNewHandler
                 /\ nativeRegCalls' = Len(handlers)
        /\ (listeners' # listeners) => nativeRegCalls = Len(handlers)
        /\ (cmdPc = "idle" /\ cmdPc' # "idle" /\ Handler(cmd'.command) # "default"
            /\ regPc \in EventKindSet \cup {"return"})
              => (cmdMp' = Len(handlers) /\ cmdMp' = mpMediaEventRecipient)
      ]_vars

\* C18 witness: the second registration, on another player, has called the
\* native registration and attached no listener yet; a PLAY command has been
\* handled by the Play method of the second handler's player.
C18_Witness ==
    /\ Len(handlers) = 2
    /\ nativeRegCalls = 2
    /\ regPc = EventKinds[1]
    /\ NoListenerOfNewHandler
    /\ handlers[2].player \notin {NilPlayer, handlers[1].player}
    /\ cmdPc = "done"
    /\ cmd.command = "PLAY"
    /\ cmdMp = 2
    /\ Len(CmdPlayerCalls) = 1
    /\ CmdPlayerCalls[1].op = "Play"
    /\ CmdPlayerCalls[1].on = handlers[2].player

\* The command in flight is a recognized one that was dispatched to a nil
\* recipient or to a handler whose player is nil.
CmdWithoutPlayer ==
    /\ cmdPc # "idle"
    /\ cmd.command \in RecognizedCommands
    /\ (cmdMp = Nil \/ handlers[cmdMp].player = NilPlayer)

\* C19: a recognized command dispatched to a nil recipient or to a handler
\* with a nil player has returned from its handler with no call made (no
\* player method, no log entry, no native call) and without a panic, and
\* the native state is what it was.  (SpecCmd)
C19_NoPlayerNoOp ==
    CmdWithoutPlayer
       => /\ cmdPc = "done"
          /\ cmdTrace = <<>>
          /\ nativeState = "none"
          /\ liveAllocs = 0

\* C19 witness: the recipient was replaced by a handler with a nil player
\* and a SEEK command dispatched to it has returned with no call made.
C19_Witness ==
    /\ ~panicked
    /\ Len(handlers) = 2
    /\ handlers[1].player # NilPlayer
    /\ cmdPc = "done"
    /\ cmd.command = "SEEK"
    /\ cmd.value = 85
    /\ cmdMp = 2
    /\ handlers[2].player = NilPlayer
    /\ cmdTrace = <<>>

\* The place of an event kind in the order the listeners are attached in.
KindIndex(kind) == CHOOSE i \in 1..Len(EventKinds) : EventKinds[i] = kind

\* Registration i has attached its listener for the kind.
Attached(i, kind) ==
    \/ i < Len(handlers)
    \/ regPc \in {"return", "returned", "idle"}
    \/ regPc \in EventKindSet /\ KindIndex(kind) < KindIndex(regPc)

\* The registrations on player p that have attached their listener for the
\* kind.
AttachedTo(p, kind) ==
    {i \in 1..Len(handlers) : handlers[i].player = p /\ Attached(i, kind)}

\* The native calls one listener of the kind makes.
PushesPerListener(kind) == IF kind \in {"Playing", "Paused"} THEN 2 ELSE 1

\* A delivered event has made the native calls of one listener once for
\* every registration that attached a listener to the emitting player.
DeliveredPushesMatch ==
    EventDelivered
       => Len(EvNativeCalls) = PushesPerListener(ev.kind)
                                  * Cardinality(AttachedTo(ev.player, ev.kind))

\* C20: no step removes a listener: a player's list for a kind only grows
\* at its end, and holds, in order, one listener of every registration made
\* on that player, whichever handler the recipient holds now.  A delivered
\* event has made the native calls of one listener once for every
\* registration made on the emitting player.  (SpecEv)
C20_ListenersSurviveReRegistration ==
    [][ /\ \A p \in Players, kind \in EventKindSet :
              LET old == listeners[p][kind]
                  new == listeners'[p][kind]
              IN /\ Len(new) >= Len(old)
                 /\ SubSeq(new, 1, Len(old)) = old
                 /\ Len(new) = Cardinality(AttachedTo(p, kind)')
                 /\ \A j \in 1..Len(new) :
                       /\ new[j] \in AttachedTo(p, kind)'
                       /\ \A k \in 1..Len(new) : j < k => new[j] < new[k]
        /\ DeliveredPushesMatch'
      ]_vars

\* C20 witness: handler 1 was registered on P1 and handler 2, now the
\* recipient, on P2; a Playing event of P1 has been delivered to the
\* listener of handler 1 and has pushed the state and the position.
C20_Witness ==
    /\ Len(handlers) = 2
    /\ handlers[1].player = "P1"
    /\ handlers[2].player = "P2"
    /\ regPc = "idle"
    /\ mpMediaEventRecipient = 2
    /\ EventDelivered
    /\ ev.player = "P1"
    /\ ev.kind = "Playing"
    /\ listeners["P1"]["Playing"] = <<1>>
    /\ EvNativeOps = ExpectedPushes("Playing")
    /\ nativeState = "Playing"

====
